---- MODULE Spec2Model ----
(***************************************************************************)
(* errgo: an attribute macro that collects `err!(...)` invocations of a    *)
(* function body into an enum and rewrites each invocation to the          *)
(* construction of the variant it describes.                               *)
(*                                                                         *)
(* Token streams are sequences of token trees.  A token tree is a record   *)
(* [k, v, ts]: k is the kind ("ident", "lit", "ty", "attr", "kw", "punct", *)
(* "group"), v the spelling (for a group: its delimiter), ts the contents  *)
(* of a group.  An outer attribute `#[..]` and a non-path type such as     *)
(* `&str` are carried as one opaque token each ("attr", "ty"); a type may  *)
(* also be a bare identifier, an expression a bare identifier or literal.  *)
(***************************************************************************)
EXTENDS Integers, Sequences, FiniteSets, TLC

VARIABLES
    pc,                 \* position of the harness / macro invocation
    call_site,          \* test_use: tokens of one marker
    prefix,             \* test_use: path the construction is prefixed with
    parsed,             \* test_use: result of parse2::<VariantWithValue>
    construction,       \* test_use: Expr built by into_syn_expr_with_prefix
    definition,         \* test_use: Variant built by into_syn_variant
    return_type,        \* get_result_name: the ReturnType under test
    struct_name,        \* get_result_name: Option<Ident> returned
    attr,               \* errgo: tokens of the attribute arguments
    input,              \* errgo: the annotated function as handed in
    config,             \* errgo: result of parsing attr as Config
    item,               \* errgo: the ItemFn being rewritten
    error_name,         \* errgo: Option<Ident> from the return type
    stack,              \* visitor: paths of the nodes still to visit
    variants,           \* visitor.variants
    collection_errors,  \* visitor.collection_errors
    diagnostics,        \* errors emitted through emit_error!
    output              \* tokens returned by the macro

useVars == <<call_site, prefix, parsed, construction, definition>>
resolveVars == <<return_type, struct_name>>
mainVars == <<attr, input, config, item, error_name, stack, variants,
              collection_errors, diagnostics, output>>
vars == <<pc, useVars, resolveVars, mainVars>>

----------------------------------------------------------------------------
(* Bounds *)

MaxFields == 2
MaxStmts == 2
MaxOpts == 2
MaxArgs == 3

----------------------------------------------------------------------------
(* Tokens *)

Tok(k, v) == [k |-> k, v |-> v, ts |-> <<>>]
Group(d, ts) == [k |-> "group", v |-> d, ts |-> ts]
Ident(s) == Tok("ident", s)
Punct(s) == Tok("punct", s)

IsPunct(ts, s) == ts # <<>> /\ Head(ts).k = "punct" /\ Head(ts).v = s
IsGroup(ts, d) == ts # <<>> /\ Head(ts).k = "group" /\ Head(ts).v = d
IsKind(ts, k) == ts # <<>> /\ Head(ts).k = k

Ok(val, rest) == [ok |-> TRUE, val |-> val, rest |-> rest]
Err(msg, rest) == [ok |-> FALSE, val |-> msg, rest |-> rest]

\* `x?` followed by F: the error of x, or F applied to the value of x.
\* x is evaluated once, as the only element of a set.
Then(x, F(_)) == CHOOSE r \in {IF v.ok THEN F(v) ELSE v : v \in {x}} : TRUE

None == [some |-> FALSE, v |-> ""]
Some(x) == [some |-> TRUE, v |-> x]

RECURSIVE Join(_, _)
Join(seqs, sep) ==
    IF seqs = <<>> THEN <<>>
    ELSE IF Len(seqs) = 1 THEN Head(seqs)
    ELSE Head(seqs) \o <<sep>> \o Join(Tail(seqs), sep)

RECURSIVE Concat(_)
Concat(seqs) ==
    IF seqs = <<>> THEN <<>> ELSE Head(seqs) \o Concat(Tail(seqs))

Map(f(_), s) == [i \in 1..Len(s) |-> f(s[i])]

----------------------------------------------------------------------------
(* syn leaf parsers used by data.rs *)

RECURSIVE AttrCount(_)
AttrCount(ts) ==
    IF IsKind(ts, "attr") THEN 1 + AttrCount(Tail(ts)) ELSE 0

\* Attribute::parse_outer: zero or more leading outer attributes
parse_outer(ts) ==
    Ok(SubSeq(ts, 1, AttrCount(ts)), SubSeq(ts, AttrCount(ts) + 1, Len(ts)))

\* Visibility: `pub(crate)` or `pub` when present, inherited otherwise;
\* never fails
Visibility_parse(ts) ==
    IF ts # <<>> /\ Head(ts) = Tok("kw", "pub")
    THEN IF Tail(ts) # <<>>
            /\ Head(Tail(ts)) = Group("paren", <<Tok("kw", "crate")>>)
         THEN Ok("pub(crate)", Tail(Tail(ts)))
         ELSE Ok("pub", Tail(ts))
    ELSE Ok("inherited", ts)

Ident_parse(ts) ==
    IF IsKind(ts, "ident") THEN Ok(Head(ts).v, Tail(ts))
    ELSE Err("expected identifier", ts)

Punct_parse(ts, s) ==
    IF IsPunct(ts, s) THEN Ok(s, Tail(ts)) ELSE Err("expected punct", ts)

Type_parse(ts) ==
    IF IsKind(ts, "ident") \/ IsKind(ts, "ty") THEN Ok(Head(ts), Tail(ts))
    ELSE Err("expected type", ts)

\* Expr: a literal, a bare identifier, or a macro invocation `name!(..)`,
\* kept as [k |-> "macro", v |-> name, ts |-> <<delimited group>>]
Expr_parse(ts) ==
    IF /\ IsKind(ts, "ident") /\ IsPunct(Tail(ts), "!")
       /\ IsKind(Tail(Tail(ts)), "group")
    THEN Ok([k |-> "macro", v |-> Head(ts).v, ts |-> <<ts[3]>>],
            Tail(Tail(Tail(ts))))
    ELSE IF IsKind(ts, "ident") \/ IsKind(ts, "lit")
    THEN Ok(Head(ts), Tail(ts))
    ELSE Err("expected expression", ts)

----------------------------------------------------------------------------
(* data.rs: the marker grammar *)

FieldWithValueNamed_parse(ts) ==
    Then(parse_outer(ts), LAMBDA attrs :
    Then(Ident_parse(attrs.rest), LAMBDA ident :
    Then(Punct_parse(ident.rest, ":"), LAMBDA colon_token :
    Then(Type_parse(colon_token.rest), LAMBDA ty :
    Then(Punct_parse(ty.rest, "="), LAMBDA eq_token :
    Then(Expr_parse(eq_token.rest), LAMBDA expr :
         Ok([attrs |-> attrs.val, ident |-> Some(ident.val),
             ty |-> ty.val, expr |-> expr.val], expr.rest)))))))

FieldWithValueUnnamed_parse(ts) ==
    Then(parse_outer(ts), LAMBDA attrs :
    Then(Type_parse(attrs.rest), LAMBDA ty :
    Then(Punct_parse(ty.rest, "="), LAMBDA eq_token :
    Then(Expr_parse(eq_token.rest), LAMBDA expr :
         Ok([attrs |-> attrs.val, ident |-> None,
             ty |-> ty.val, expr |-> expr.val], expr.rest)))))

RECURSIVE parse_terminated_named_recover(_)
parse_terminated_named_recover(content) ==
    IF content = <<>> THEN Ok(<<>>, <<>>)
    ELSE CHOOSE out \in
           {IF ~f.ok THEN Ok(<<>>, <<>>)
            ELSE IF f.rest = <<>> THEN Ok(<<f.val>>, <<>>)
            ELSE IF ~IsPunct(f.rest, ",") THEN Err("expected comma", f.rest)
            ELSE Then(parse_terminated_named_recover(Tail(f.rest)),
                      LAMBDA r : Ok(<<f.val>> \o r.val, <<>>))
            : f \in {FieldWithValueNamed_parse(content)}} : TRUE

\* content.parse_terminated(FieldWithValueNamed::parse, Token!(,))
RECURSIVE parse_terminated_named(_)
parse_terminated_named(content) ==
    IF content = <<>> THEN Ok(<<>>, <<>>)
    ELSE Then(FieldWithValueNamed_parse(content), LAMBDA f :
         IF f.rest = <<>> THEN Ok(<<f.val>>, <<>>)
         ELSE IF ~IsPunct(f.rest, ",") THEN Err("expected comma", f.rest)
         ELSE Then(parse_terminated_named(Tail(f.rest)), LAMBDA r :
                   Ok(<<f.val>> \o r.val, <<>>)))

\* content.parse_terminated(FieldWithValueUnnamed::parse, Token!(,))
RECURSIVE parse_terminated_unnamed(_)
parse_terminated_unnamed(content) ==
    IF content = <<>> THEN Ok(<<>>, <<>>)
    ELSE Then(FieldWithValueUnnamed_parse(content), LAMBDA f :
         IF f.rest = <<>> THEN Ok(<<f.val>>, <<>>)
         ELSE IF ~IsPunct(f.rest, ",") THEN Err("expected comma", f.rest)
         ELSE Then(parse_terminated_unnamed(Tail(f.rest)), LAMBDA r :
                   Ok(<<f.val>> \o r.val, <<>>)))

MultipleFieldsWithValueNamed_parse(ts) ==
    IF ~IsGroup(ts, "brace") THEN Err("expected curly braces", ts)
    ELSE Then(parse_terminated_named(Head(ts).ts), LAMBDA fields :
              Ok([shape |-> "Named", fields |-> fields.val], Tail(ts)))

MultipleFieldsWithValuesUnnamed_parse(ts) ==
    IF ~IsGroup(ts, "paren") THEN Err("expected parentheses", ts)
    ELSE Then(parse_terminated_unnamed(Head(ts).ts), LAMBDA fields :
              Ok([shape |-> "Unnamed", fields |-> fields.val], Tail(ts)))

Unit == [shape |-> "Unit", fields |-> <<>>]

VariantWithValue_parse(ts) ==
    Then(parse_outer(ts), LAMBDA attrs :
    Then(Visibility_parse(attrs.rest), LAMBDA visibility :
    Then(Ident_parse(visibility.rest), LAMBDA ident :
    Then(IF IsGroup(ident.rest, "brace")
         THEN MultipleFieldsWithValueNamed_parse(ident.rest)
         ELSE IF IsGroup(ident.rest, "paren")
         THEN MultipleFieldsWithValuesUnnamed_parse(ident.rest)
         ELSE Ok(Unit, ident.rest), LAMBDA fields :
    Then(IF IsPunct(fields.rest, "=")
         THEN Then(Expr_parse(Tail(fields.rest)), LAMBDA discriminant :
                   Ok(Some(discriminant.val), discriminant.rest))
         ELSE Ok(None, fields.rest), LAMBDA discriminant :
         Ok([attrs |-> attrs.val, ident |-> ident.val,
             fields |-> fields.val,
             discriminant |-> discriminant.val], discriminant.rest))))))

\* syn::parse2: the parser must consume the whole stream
parse2_VariantWithValue(ts) ==
    Then(VariantWithValue_parse(ts), LAMBDA r :
         IF r.rest # <<>> THEN Err("unexpected token", r.rest) ELSE r)

----------------------------------------------------------------------------
(* data.rs: the two projections *)

Field_from_named(value) ==
    [attrs |-> value.attrs, vis |-> "inherited", ident |-> value.ident,
     colon_token |-> TRUE, ty |-> value.ty]

Field_from_unnamed_no_attrs(value) ==
    [attrs |-> <<>>, vis |-> "inherited", ident |-> None,
     colon_token |-> FALSE, ty |-> value.ty]

Field_from_unnamed(value) ==
    [attrs |-> value.attrs, vis |-> "inherited", ident |-> None,
     colon_token |-> FALSE, ty |-> value.ty]

Fields_from_coerce(value) ==
    CASE value.fields = <<>> -> [shape |-> "Unit", fields |-> <<>>]
      [] value.shape = "Named" ->
           [shape |-> "Named", fields |-> Map(Field_from_named, value.fields)]
      [] OTHER ->
           [shape |-> "Unnamed",
            fields |-> Map(Field_from_unnamed, value.fields)]

Fields_from(value) ==
    CASE value.shape = "Named" ->
           [shape |-> "Named", fields |-> Map(Field_from_named, value.fields)]
      [] value.shape = "Unnamed" ->
           [shape |-> "Unnamed",
            fields |-> Map(Field_from_unnamed, value.fields)]
      [] OTHER -> [shape |-> "Unit", fields |-> <<>>]

into_syn_variant_no_discriminant(value) ==
    [attrs |-> value.attrs, ident |-> value.ident,
     fields |-> Fields_from(value.fields),
     discriminant |-> None]

into_syn_variant(value) ==
    [attrs |-> value.attrs, ident |-> value.ident,
     fields |-> Fields_from(value.fields),
     discriminant |-> value.discriminant]

FieldValue_from(f) ==
    [attrs |-> <<>>, member |-> f.ident.v, colon_token |-> TRUE,
     expr |-> f.expr]

Arg_from_ty(f) == f.ty

Arg_from(f) == f.expr

into_syn_expr_with_prefix(self, prefix_path) ==
    LET path == Append(prefix_path, self.ident) IN
    CASE self.fields.shape = "Named" ->
           [kind |-> "Struct", path |-> path,
            fields |-> Map(FieldValue_from, self.fields.fields),
            args |-> <<>>]
      [] self.fields.shape = "Unnamed" ->
           [kind |-> "Call", path |-> path, fields |-> <<>>,
            args |-> Map(Arg_from, self.fields.fields)]
      [] OTHER ->
           [kind |-> "Path", path |-> path, fields |-> <<>>, args |-> <<>>]

----------------------------------------------------------------------------
(* ToTokens of the syn values the macro prints *)

IdentTokens(s) == <<Ident(s)>>

Path_to_tokens(path) == Join(Map(IdentTokens, path), Punct("::"))

ExprTokens_rewrite(e) ==
    IF e.k = "macro"
    THEN <<Ident("errgo"), Punct("::"), Ident("__nothing"), Punct("!")>>
         \o e.ts
    ELSE <<e>>

\* an expression printed back: a macro invocation as `name ! (..)`
ExprTokens(e) ==
    IF e.k = "macro" THEN <<Ident(e.v), Punct("!")>> \o e.ts ELSE <<e>>

FieldValue_to_tokens(fv) ==
    <<Ident(fv.member), Punct(":")>> \o ExprTokens(fv.expr)

Expr_to_tokens(e) ==
    CASE e.kind = "Struct" ->
           Path_to_tokens(e.path) \o
           <<Group("brace", Join(Map(FieldValue_to_tokens, e.fields),
                                 Punct(",")))>>
      [] e.kind = "Call" ->
           Path_to_tokens(e.path) \o
           <<Group("paren", Join(Map(ExprTokens, e.args), Punct(",")))>>
      [] OTHER -> Path_to_tokens(e.path)

Field_to_tokens(f) ==
    f.attrs \o (IF f.ident.some THEN <<Ident(f.ident.v)>> ELSE <<>>)
            \o (IF f.colon_token THEN <<Punct(":")>> ELSE <<>>)
            \o <<f.ty>>

Fields_to_tokens(fs) ==
    CASE fs.shape = "Named" ->
           <<Group("brace", Join(Map(Field_to_tokens, fs.fields),
                                 Punct(",")))>>
      [] fs.shape = "Unnamed" ->
           <<Group("paren", Join(Map(Field_to_tokens, fs.fields),
                                 Punct(",")))>>
      [] OTHER -> <<>>

Variant_to_tokens(v) ==
    v.attrs \o <<Ident(v.ident)>> \o Fields_to_tokens(v.fields)
            \o (IF v.discriminant.some
                THEN <<Punct("=")>> \o ExprTokens(v.discriminant.v)
                ELSE <<>>)

----------------------------------------------------------------------------
(* lib.rs: the return type and get_struct_name_from_return_type *)

NoArguments == [kind |-> "None", args |-> <<>>]
AngleBracketed(args) == [kind |-> "AngleBracketed", args |-> args]
Parenthesized == [kind |-> "Parenthesized", args |-> <<>>]
Segment(ident, arguments) == [ident |-> ident, arguments |-> arguments]

TypePath(qself, leading_colon, segments) ==
    [t |-> "Path", qself |-> qself, leading_colon |-> leading_colon,
     segments |-> segments]
TypeTuple == [t |-> "Tuple", qself |-> FALSE, leading_colon |-> FALSE,
              segments |-> <<>>]
Plain(name) == TypePath(FALSE, FALSE, <<Segment(name, NoArguments)>>)

TypeArg(ty) == [kind |-> "Type", ty |-> ty]
LifetimeArg == [kind |-> "Lifetime", ty |-> TypeTuple]
ConstArg == [kind |-> "Const", ty |-> TypeTuple]

\* PathArguments::is_empty
arguments_is_empty(arguments) ==
    CASE arguments.kind = "None" -> TRUE
      [] arguments.kind = "AngleBracketed" -> arguments.args = <<>>
      [] OTHER -> FALSE

ArgumentTypes ==
    {TypeTuple, Plain("T"), Plain("FooError"),
     TypePath(FALSE, FALSE, <<Segment("io", NoArguments),
                              Segment("Error", NoArguments)>>),
     TypePath(FALSE, TRUE, <<Segment("FooError", NoArguments)>>),
     TypePath(TRUE, FALSE, <<Segment("FooError", NoArguments)>>),
     TypePath(FALSE, FALSE,
              <<Segment("FooError", AngleBracketed(<<LifetimeArg>>))>>),
     TypePath(FALSE, FALSE, <<Segment("FooError", AngleBracketed(<<>>))>>),
     TypePath(FALSE, FALSE, <<Segment("FooError", Parenthesized)>>)}

GenericArguments ==
    {TypeArg(ty) : ty \in ArgumentTypes} \cup {LifetimeArg, ConstArg}

ArgumentLists == UNION {[1..n -> GenericArguments] : n \in 0..MaxArgs}

LastSegments ==
    {Segment(name, arguments) :
        name \in {"Result", "Option"},
        arguments \in {NoArguments, Parenthesized}
                      \cup {AngleBracketed(l) : l \in ArgumentLists}}

Leading == {<<>>, <<Segment("std", NoArguments),
                    Segment("result", NoArguments)>>}

ReturnTypes ==
    {[kind |-> "Default", ty |-> TypeTuple],
     [kind |-> "Type", ty |-> TypeTuple]}
    \cup {[kind |-> "Type", ty |-> TypePath(q, c, l \o <<last>>)] :
             q \in BOOLEAN, c \in BOOLEAN, l \in Leading,
             last \in LastSegments}

get_struct_name_any_outer(rt) ==
    IF rt.kind = "Type" /\ rt.ty.t = "Path" /\ ~rt.ty.qself
    THEN LET last == rt.ty.segments[Len(rt.ty.segments)] IN
         IF /\ last.arguments.kind = "AngleBracketed"
            /\ Len(last.arguments.args) = 2
         THEN LET second == last.arguments.args[2] IN
              IF /\ second.kind = "Type" /\ second.ty.t = "Path"
                 /\ ~second.ty.qself /\ ~second.ty.leading_colon
                 /\ Len(second.ty.segments) = 1
                 /\ arguments_is_empty(second.ty.segments[1].arguments)
              THEN Some(second.ty.segments[1].ident)
              ELSE None
         ELSE None
    ELSE None

get_struct_name_from_return_type(rt) ==
    IF rt.kind = "Type" /\ rt.ty.t = "Path" /\ ~rt.ty.qself
    THEN LET last == rt.ty.segments[Len(rt.ty.segments)] IN
         IF /\ last.arguments.kind = "AngleBracketed"
            /\ last.ident = "Result" /\ Len(last.arguments.args) = 2
         THEN LET second == last.arguments.args[2] IN
              IF /\ second.kind = "Type" /\ second.ty.t = "Path"
                 /\ ~second.ty.qself /\ ~second.ty.leading_colon
                 /\ Len(second.ty.segments) = 1
                 /\ arguments_is_empty(second.ty.segments[1].arguments)
              THEN Some(second.ty.segments[1].ident)
              ELSE None
         ELSE None
    ELSE None

----------------------------------------------------------------------------
(* config.rs: the arguments of the attribute *)

NoneSeq == [some |-> FALSE, v |-> <<>>]

Config_default ==
    [derives |-> NoneSeq, attributes |-> NoneSeq, visibility |-> None]

\* syn::Path: identifiers separated by `::`
RECURSIVE Path_parse(_)
Path_parse(ts) ==
    IF ~IsKind(ts, "ident") THEN Err("expected identifier", ts)
    ELSE IF IsPunct(Tail(ts), "::")
    THEN Then(Path_parse(Tail(Tail(ts))), LAMBDA r :
              Ok(<<Head(ts).v>> \o r.val, r.rest))
    ELSE Ok(<<Head(ts).v>>, Tail(ts))

\* Punctuated::<Path, Token![,]>::parse_terminated
RECURSIVE parse_terminated_paths(_)
parse_terminated_paths(content) ==
    IF content = <<>> THEN Ok(<<>>, <<>>)
    ELSE Then(Path_parse(content), LAMBDA f :
         IF f.rest = <<>> THEN Ok(<<f.val>>, <<>>)
         ELSE IF ~IsPunct(f.rest, ",") THEN Err("expected comma", f.rest)
         ELSE Then(parse_terminated_paths(Tail(f.rest)), LAMBDA r :
                   Ok(<<f.val>> \o r.val, <<>>)))

\* Punctuated::parse_terminated_with(&content, Attribute::parse_outer),
\* flattened: comma-separated runs of zero or more attributes
RECURSIVE parse_terminated_attrs(_)
parse_terminated_attrs(content) ==
    IF content = <<>> THEN Ok(<<>>, <<>>)
    ELSE Then(parse_outer(content), LAMBDA f :
         IF f.rest = <<>> THEN Ok(f.val, <<>>)
         ELSE IF ~IsPunct(f.rest, ",") THEN Err("expected comma", f.rest)
         ELSE Then(parse_terminated_attrs(Tail(f.rest)), LAMBDA r :
                   Ok(f.val \o r.val, <<>>)))

stage_derive(self, input_ts) ==
    IF ~IsGroup(input_ts, "paren") THEN Err("expected parentheses", input_ts)
    ELSE Then(parse_terminated_paths(Head(input_ts).ts), LAMBDA derives :
         IF derives.val = <<>>
         THEN Err("derive cannot be empty", input_ts)
         ELSE IF self.derives.some
         THEN Err("derive specified more than once", input_ts)
         ELSE Ok([self EXCEPT !.derives = Some(derives.val)],
                 Tail(input_ts)))

stage_attributes_overwrite(self, input_ts) ==
    IF ~IsGroup(input_ts, "paren") THEN Err("expected parentheses", input_ts)
    ELSE Then(parse_terminated_attrs(Head(input_ts).ts), LAMBDA attributes :
         IF attributes.val = <<>>
         THEN Err("attributes cannot be empty", input_ts)
         ELSE Ok([self EXCEPT !.attributes = Some(attributes.val)],
                 Tail(input_ts)))

stage_attributes(self, input_ts) ==
    IF ~IsGroup(input_ts, "paren") THEN Err("expected parentheses", input_ts)
    ELSE Then(parse_terminated_attrs(Head(input_ts).ts), LAMBDA attributes :
         IF attributes.val = <<>>
         THEN Err("attributes cannot be empty", input_ts)
         ELSE IF self.attributes.some
         THEN Err("attributes specified more than once", input_ts)
         ELSE Ok([self EXCEPT !.attributes = Some(attributes.val)],
                 Tail(input_ts)))

stage_visibility(self, input_ts) ==
    IF ~IsGroup(input_ts, "paren") THEN Err("expected parentheses", input_ts)
    ELSE IF self.visibility.some
    THEN Err("visibility specified more than once", input_ts)
    ELSE Then(Visibility_parse(Head(input_ts).ts), LAMBDA vis :
         IF vis.rest # <<>> THEN Err("unexpected token", vis.rest)
         ELSE Ok([self EXCEPT !.visibility = Some(vis.val)], Tail(input_ts)))

\* Config::parse_stage; stage_path is the option name, input_ts what follows
parse_stage(self, stage_path, input_ts) ==
    IF stage_path = "derive" THEN stage_derive(self, input_ts)
    ELSE IF stage_path \in {"attributes", "attrs", "attr"}
    THEN stage_attributes(self, input_ts)
    ELSE IF stage_path \in {"visibility", "vis"}
    THEN stage_visibility(self, input_ts)
    ELSE Err("unexpected argument", input_ts)

\* syn::meta::parser: option, then `,` option ..., trailing comma allowed
RECURSIVE parse_nested_meta(_, _)
parse_nested_meta(self, ts) ==
    IF ~IsKind(ts, "ident") THEN Err("expected identifier", ts)
    ELSE Then(parse_stage(self, Head(ts).v, Tail(ts)), LAMBDA st :
         IF st.rest = <<>> THEN st
         ELSE IF ~IsPunct(st.rest, ",") THEN Err("expected comma", st.rest)
         ELSE IF Tail(st.rest) = <<>> THEN Ok(st.val, <<>>)
         ELSE parse_nested_meta(st.val, Tail(st.rest)))

Config_parse(ts) ==
    IF ts = <<>> THEN Ok(Config_default, <<>>)
    ELSE parse_nested_meta(Config_default, ts)

(* attribute arguments the macro is run with *)

Attr(s) == Tok("attr", s)

OptionPool ==
    {<<Ident("derive"),
       Group("paren", <<Ident("Clone"), Punct(","), Ident("thiserror"),
                        Punct("::"), Ident("Error")>>)>>,
     <<Ident("attributes"),
       Group("paren", <<Attr("#[repr(u8)]"), Punct(","),
                        Attr("#[must_use]")>>)>>,
     <<Ident("attr"), Group("paren", <<Attr("#[non_exhaustive]")>>)>>,
     <<Ident("attrs"), Group("paren", <<Attr("#[must_use]"), Punct(",")>>)>>,
     <<Ident("visibility"), Group("paren", <<Tok("kw", "pub")>>)>>,
     <<Ident("vis"), Group("paren", <<>>)>>,
     <<Ident("rename"), Group("paren", <<Ident("Foo")>>)>>}

AttrInputs ==
    {Join(opts, Punct(",")) :
        opts \in UNION {[1..n -> OptionPool] : n \in 0..MaxOpts}}

----------------------------------------------------------------------------
(* Marker contents the harness and the walker are run on: every rendering  *)
(* of a variant with up to MaxFields fields, and each of them with one     *)
(* token removed.                                                          *)

FieldNames == <<"bar", "baz", "qux", "quux">>
TypeTokens == <<Ident("usize"), Tok("ty", "&str")>>
ValueTokens == <<Tok("lit", "1"), Ident("e")>>
FieldAttr == Tok("attr", "#[from]")
\* the attributes of the field at each position, when it has any
FieldAttrs ==
    << <<FieldAttr>>,
       <<Tok("attr", "#[source]"), Tok("attr", "#[backtrace]")>>,
       <<FieldAttr>>, <<FieldAttr>> >>
VariantAttr == Tok("attr", "#[default]")

FieldSpecs == [a : BOOLEAN, which : {1, 2}]
FieldLists == UNION {[1..n -> FieldSpecs] : n \in 0..MaxFields}

RenderField(fl, i, named) ==
    (IF fl[i].a THEN FieldAttrs[i] ELSE <<>>)
    \o (IF named THEN <<Ident(FieldNames[i]), Punct(":")>> ELSE <<>>)
    \o <<TypeTokens[fl[i].which], Punct("="), ValueTokens[fl[i].which]>>

RenderFields(fl, named, trailing) ==
    Join([i \in 1..Len(fl) |-> RenderField(fl, i, named)], Punct(","))
    \o (IF trailing /\ fl # <<>> THEN <<Punct(",")>> ELSE <<>>)

RenderMarker(a, name, shape, fl, trailing, disc) ==
    (IF a THEN <<VariantAttr>> ELSE <<>>)
    \o <<Ident(name)>>
    \o (CASE shape = "Named" ->
               <<Group("brace", RenderFields(fl, TRUE, trailing))>>
          [] shape = "Unnamed" ->
               <<Group("paren", RenderFields(fl, FALSE, trailing))>>
          [] OTHER -> <<>>)
    \o (IF disc THEN <<Punct("="), Tok("lit", "7")>> ELSE <<>>)

WellFormedNamed(name) ==
    {RenderMarker(a, name, "Unit", <<>>, FALSE, d) : a, d \in BOOLEAN}
    \cup {RenderMarker(a, name, sh, fl, t, d) :
            a \in BOOLEAN, sh \in {"Named", "Unnamed"}, fl \in FieldLists,
            t \in BOOLEAN, d \in BOOLEAN}

WellFormed == WellFormedNamed("Foo")

DropAt(ts, i) == SubSeq(ts, 1, i - 1) \o SubSeq(ts, i + 1, Len(ts))

Mutations(ts) ==
    {DropAt(ts, i) : i \in 1..Len(ts)}
    \cup UNION {{[ts EXCEPT ![i].ts = DropAt(ts[i].ts, j)] :
                    j \in 1..Len(ts[i].ts)} :
                i \in {k \in 1..Len(ts) : ts[k].k = "group"}}

\* a rendering, the same with one token removed, with `pub` put first, or
\* with one more attribute put first
CallSitesOf(w) ==
    {w, <<Tok("kw", "pub")>> \o w, <<Tok("attr", "#[doc]")>> \o w}
    \cup Mutations(w)

Prefixes == {<<>>, <<"FooError">>}

NoValue == [ok |-> FALSE, val |-> "none", rest |-> <<>>]
NoExpr == [kind |-> "none", path |-> <<>>, fields |-> <<>>, args |-> <<>>]
NoVariant ==
    [attrs |-> <<>>, ident |-> "", fields |-> Unit, discriminant |-> None]

----------------------------------------------------------------------------

(* lib.rs: the function the attribute is put on.  The body is a tree of    *)
(* nodes [kind, kids, path, tokens]; a macro invocation is a leaf that     *)
(* carries its path and its unparsed tokens.                               *)

Node(kind, kids) ==
    [kind |-> kind, kids |-> kids, path |-> <<>>, tokens |-> <<>>]
Macro(mac_path, tokens) ==
    [kind |-> "macro", kids |-> <<>>, path |-> mac_path, tokens |-> tokens]
ItemFn(vis, out, block) == [vis |-> vis, output |-> out, block |-> block]

NoItem ==
    ItemFn("none", [kind |-> "Default", ty |-> TypeTuple], Node("none", <<>>))
NoOutput == [kind |-> "none", enum |-> <<>>, item |-> NoItem, error |-> ""]

RECURSIVE NodeAt(_, _)
NodeAt(n, p) == IF p = <<>> THEN n ELSE NodeAt(n.kids[Head(p)], Tail(p))

RECURSIVE ReplaceAt(_, _, _)
ReplaceAt(n, p, m) ==
    IF p = <<>> THEN m
    ELSE [n EXCEPT !.kids[Head(p)] = ReplaceAt(@, Tail(p), m)]

\* err!(Foo);
StmtUnit == Macro(<<"err">>, <<Ident("Foo")>>)
\* { errgo!(Bar { bar: usize = 1 }) }
StmtBlock ==
    Node("block",
         <<Macro(<<"errgo">>,
                 <<Ident("Bar"),
                   Group("brace", <<Ident("bar"), Punct(":"), Ident("usize"),
                                    Punct("="), Tok("lit", "1")>>)>>)>>)
\* s.map_err(|e| err!(Foo(&str = e)))
StmtClosure ==
    Node("call",
         <<Node("path", <<>>),
           Node("closure",
                <<Macro(<<"err">>,
                        <<Ident("Foo"),
                          Group("paren", <<Tok("ty", "&str"), Punct("="),
                                           Ident("e")>>)>>)>>)>>)
\* match x { _ => err!(Foo { bar = 1 }) }
StmtMatch ==
    Node("match",
         <<Node("path", <<>>),
           Node("arm",
                <<Macro(<<"err">>,
                        <<Ident("Foo"),
                          Group("brace", <<Ident("bar"), Punct("="),
                                           Tok("lit", "1")>>)>>)>>)>>)
\* Err(err!(#[default] Baz))
StmtArg ==
    Node("call",
         <<Node("path", <<>>),
           Macro(<<"err">>, <<VariantAttr, Ident("Baz")>>)>>)
\* todo!()
StmtOther == Macro(<<"todo">>, <<>>)

StmtPool ==
    {StmtUnit, StmtBlock, StmtClosure, StmtMatch, StmtArg, StmtOther}

Bodies ==
    {Node("block", stmts) :
        stmts \in UNION {[1..n -> StmtPool] : n \in 0..MaxStmts}}

ItemOutputs ==
    {[kind |-> "Type",
      ty |-> TypePath(FALSE, FALSE,
                 <<Segment("Result",
                           AngleBracketed(<<TypeArg(TypeTuple),
                                            TypeArg(Plain("FooError"))>>))>>)],
     [kind |-> "Type",
      ty |-> TypePath(FALSE, FALSE,
                 <<Segment("std", NoArguments), Segment("io", NoArguments),
                   Segment("Result",
                           AngleBracketed(<<TypeArg(TypeTuple)>>))>>)],
     [kind |-> "Default", ty |-> TypeTuple]}

FnVisibilities == {"inherited"}

Items ==
    {ItemFn(v, o, b) : v \in FnVisibilities, o \in ItemOutputs, b \in Bodies}

----------------------------------------------------------------------------

(* values of the variables a harness does not use *)

UseIdle ==
    /\ call_site = <<>> /\ prefix = <<>> /\ parsed = NoValue
    /\ construction = NoExpr /\ definition = NoVariant

ResolveIdle ==
    return_type = [kind |-> "Default", ty |-> TypeTuple] /\ struct_name = None

MainIdle ==
    /\ attr = <<>> /\ input = NoItem /\ config = NoValue /\ item = NoItem
    /\ error_name = None /\ stack = <<>> /\ variants = <<>>
    /\ collection_errors = <<>> /\ diagnostics = <<>> /\ output = NoOutput

----------------------------------------------------------------------------
(* data.rs tests::test_use: parse a call site, then project it both ways *)

InitUse ==
    /\ pc = "use_start"
    /\ \E w \in WellFormed : call_site \in CallSitesOf(w)
    /\ prefix \in Prefixes
    /\ parsed = NoValue /\ construction = NoExpr /\ definition = NoVariant
    /\ ResolveIdle /\ MainIdle

UseParse ==
    /\ pc = "use_start"
    /\ parsed' = parse2_VariantWithValue(call_site)
    /\ pc' = IF parsed'.ok THEN "use_parsed" ELSE "use_invalid"
    /\ UNCHANGED <<call_site, prefix, construction, definition,
                   resolveVars, mainVars>>

UseConstruct ==
    /\ pc = "use_parsed"
    /\ construction' = into_syn_expr_with_prefix(parsed.val, prefix)
    /\ pc' = "use_constructed"
    /\ UNCHANGED <<call_site, prefix, parsed, definition,
                   resolveVars, mainVars>>

UseDefine ==
    /\ pc = "use_constructed"
    /\ definition' = into_syn_variant(parsed.val)
    /\ pc' = "use_done"
    /\ UNCHANGED <<call_site, prefix, parsed, construction,
                   resolveVars, mainVars>>

NextUse == UseParse \/ UseConstruct \/ UseDefine

SpecUse == InitUse /\ [][NextUse]_vars

----------------------------------------------------------------------------

(* lib.rs tests::get_result_name: apply the resolver to one return type *)

InitResolve ==
    /\ pc = "resolve_start"
    /\ return_type \in ReturnTypes
    /\ struct_name = None
    /\ UseIdle /\ MainIdle

GetResultName ==
    /\ pc = "resolve_start"
    /\ struct_name' = get_struct_name_from_return_type(return_type)
    /\ pc' = "resolve_done"
    /\ UNCHANGED <<return_type, useVars, mainVars>>

NextResolve == GetResultName

SpecResolve == InitResolve /\ [][NextResolve]_vars

----------------------------------------------------------------------------

(* lib.rs: one invocation of #[errgo(attr)] on an item *)

Init ==
    /\ pc = "start"
    /\ attr \in AttrInputs
    /\ input \in Items
    /\ config = NoValue /\ item = NoItem /\ error_name = None
    /\ stack = <<>> /\ variants = <<>> /\ collection_errors = <<>>
    /\ diagnostics = <<>> /\ output = NoOutput
    /\ UseIdle /\ ResolveIdle

\* parse_macro_input!(attr as Config): an error is returned as the output
ParseConfig ==
    /\ pc = "start"
    /\ config' = Config_parse(attr)
    /\ IF config'.ok
       THEN pc' = "config_parsed" /\ output' = output
       ELSE /\ pc' = "done"
            /\ output' = [kind |-> "compile_error", enum |-> <<>>,
                          item |-> NoItem, error |-> config'.val]
    /\ UNCHANGED <<attr, input, item, error_name, stack, variants,
                   collection_errors, diagnostics, useVars, resolveVars>>

\* parse_macro_input!(item as ItemFn)
ParseItem ==
    /\ pc = "config_parsed"
    /\ item' = input
    /\ pc' = "item_parsed"
    /\ UNCHANGED <<attr, input, config, error_name, stack, variants,
                   collection_errors, diagnostics, output, useVars,
                   resolveVars>>

ResolveFail_no_return ==
    /\ pc = "item_parsed"
    /\ ~get_struct_name_from_return_type(item.output).some
    /\ diagnostics' =
           Append(diagnostics,
                  [src |-> <<>>, err |-> "unsupported return type"])
    /\ error_name' = Some("_")
    /\ stack' = << <<>> >>
    /\ pc' = "walk"
    /\ UNCHANGED <<attr, input, config, item, variants, collection_errors,
                   output, useVars, resolveVars>>

\* the let-else on get_struct_name_from_return_type, no name found
ResolveFail ==
    /\ pc = "item_parsed"
    /\ ~get_struct_name_from_return_type(item.output).some
    /\ diagnostics' =
           Append(diagnostics,
                  [src |-> <<>>, err |-> "unsupported return type"])
    /\ output' = [kind |-> "item", enum |-> <<>>, item |-> item,
                  error |-> ""]
    /\ pc' = "done"
    /\ UNCHANGED <<attr, input, config, item, error_name, stack, variants,
                   collection_errors, useVars, resolveVars>>

\* a name was found: ErrAsYouGoVisitor::new and the start of the visit
ResolveOk ==
    /\ pc = "item_parsed"
    /\ get_struct_name_from_return_type(item.output).some
    /\ error_name' = get_struct_name_from_return_type(item.output)
    /\ variants' = <<>> /\ collection_errors' = <<>>
    /\ stack' = << <<>> >>
    /\ pc' = "walk"
    /\ UNCHANGED <<attr, input, config, item, diagnostics, output, useVars,
                   resolveVars>>

is_ident_first_segment(mac_path, s) == mac_path # <<>> /\ Head(mac_path) = s

\* Path::is_ident: one segment, no leading `::`, no arguments, that name
is_ident(mac_path, s) == mac_path = <<s>>

push_variant_dedup(vs, v) ==
    IF \E k \in 1..Len(vs) : vs[k].ident = v.ident THEN vs ELSE Append(vs, v)

\* self.variants.push(..)
push_variant(vs, v) == Append(vs, v)

visit_macro_mut_inert(name, vs, errs, i) ==
    IF is_ident(i.path, "err") \/ is_ident(i.path, "errgo")
    THEN CHOOSE out \in
           {IF r.ok
            THEN [variants |-> push_variant(vs, into_syn_variant(r.val)),
                  collection_errors |-> errs,
                  i |-> [i EXCEPT
                           !.path = <<"errgo", "__nothing">>,
                           !.tokens = Expr_to_tokens(
                               into_syn_expr_with_prefix(r.val, <<name>>))]]
            ELSE [variants |-> vs,
                  collection_errors |->
                      Append(errs, [src |-> i.tokens, err |-> r.val]),
                  i |-> [i EXCEPT !.path = <<"errgo", "__nothing">>]]
            : r \in {parse2_VariantWithValue(i.tokens)}} : TRUE
    ELSE [variants |-> vs, collection_errors |-> errs, i |-> i]

visit_macro_mut_keep_name(name, vs, errs, i) ==
    IF is_ident(i.path, "err") \/ is_ident(i.path, "errgo")
    THEN CHOOSE out \in
           {IF r.ok
            THEN [variants |-> push_variant(vs, into_syn_variant(r.val)),
                  collection_errors |-> errs,
                  i |-> [i EXCEPT
                           !.tokens = Expr_to_tokens(
                               into_syn_expr_with_prefix(r.val, <<name>>))]]
            ELSE [variants |-> vs,
                  collection_errors |->
                      Append(errs, [src |-> i.tokens, err |-> r.val]),
                  i |-> i]
            : r \in {parse2_VariantWithValue(i.tokens)}} : TRUE
    ELSE [variants |-> vs, collection_errors |-> errs, i |-> i]

\* ErrAsYouGoVisitor::visit_macro_mut on the macro i
visit_macro_mut(name, vs, errs, i) ==
    IF is_ident(i.path, "err") \/ is_ident(i.path, "errgo")
    THEN CHOOSE out \in
           {IF r.ok
            THEN [variants |-> push_variant(vs, into_syn_variant(r.val)),
                  collection_errors |-> errs,
                  i |-> [i EXCEPT
                           !.path = <<"errgo", "__nothing">>,
                           !.tokens = Expr_to_tokens(
                               into_syn_expr_with_prefix(r.val, <<name>>))]]
            ELSE [variants |-> vs,
                  collection_errors |->
                      Append(errs, [src |-> i.tokens, err |-> r.val]),
                  i |-> i]
            : r \in {parse2_VariantWithValue(i.tokens)}} : TRUE
    ELSE [variants |-> vs, collection_errors |-> errs, i |-> i]

visit_children_skip_closure(n, p) ==
    IF n.kind = "closure" THEN <<>>
    ELSE [k \in 1..Len(n.kids) |-> Append(p, k)]

\* the nodes the default visit_*_mut methods go on to, in order
visit_children(n, p) == [k \in 1..Len(n.kids) |-> Append(p, k)]

\* VisitMut reaches a node that is not a macro and visits its children
VisitNode ==
    /\ pc = "walk" /\ stack # <<>>
    /\ NodeAt(item.block, Head(stack)).kind # "macro"
    /\ stack' = visit_children(NodeAt(item.block, Head(stack)), Head(stack))
                \o Tail(stack)
    /\ UNCHANGED <<pc, attr, input, config, item, error_name, variants,
                   collection_errors, diagnostics, output, useVars,
                   resolveVars>>

VisitMacroMut_stop_at_failure ==
    /\ pc = "walk" /\ stack # <<>>
    /\ NodeAt(item.block, Head(stack)).kind = "macro"
    /\ \E r \in {visit_macro_mut(error_name.v, variants, collection_errors,
                                 NodeAt(item.block, Head(stack)))} :
           /\ variants' = r.variants
           /\ collection_errors' = r.collection_errors
           /\ item' = [item EXCEPT
                         !.block = ReplaceAt(@, Head(stack), r.i)]
           /\ stack' = IF r.collection_errors # collection_errors
                       THEN <<>> ELSE Tail(stack)
    /\ UNCHANGED <<pc, attr, input, config, error_name, diagnostics, output,
                   useVars, resolveVars>>

\* VisitMut reaches a macro invocation
VisitMacroMut ==
    /\ pc = "walk" /\ stack # <<>>
    /\ NodeAt(item.block, Head(stack)).kind = "macro"
    /\ \E r \in {visit_macro_mut(error_name.v, variants, collection_errors,
                                 NodeAt(item.block, Head(stack)))} :
           /\ variants' = r.variants
           /\ collection_errors' = r.collection_errors
           /\ item' = [item EXCEPT
                         !.block = ReplaceAt(@, Head(stack), r.i)]
    /\ stack' = Tail(stack)
    /\ UNCHANGED <<pc, attr, input, config, error_name, diagnostics, output,
                   useVars, resolveVars>>

\* for (src, e) in visitor.collection_errors { emit_error!(src, "{}", e) }
EmitCollectionErrors ==
    /\ pc = "walk" /\ stack = <<>>
    /\ diagnostics' = diagnostics \o collection_errors
    /\ pc' = "emitted"
    /\ UNCHANGED <<attr, input, config, item, error_name, stack, variants,
                   collection_errors, output, useVars, resolveVars>>

derive_tokens(derives) ==
    IF derives.some
    THEN <<[k |-> "attr", v |-> "derive",
            ts |-> Join(Map(Path_to_tokens, derives.v), Punct(","))]>>
    ELSE <<>>

Visibility_to_tokens(vis) ==
    CASE vis = "inherited" -> <<>>
      [] vis = "pub(crate)" ->
           <<Tok("kw", "pub"), Group("paren", <<Tok("kw", "crate")>>)>>
      [] OTHER -> <<Tok("kw", vis)>>

assemble_fn_vis(cfg, fn, name, vs) ==
    [kind |-> "enum_and_item",
     enum |-> derive_tokens(cfg.derives)
              \o Visibility_to_tokens(fn.vis)
              \o <<Tok("kw", "enum"), Ident(name),
                   Group("brace", Join(Map(Variant_to_tokens, vs),
                                       Punct(",")))>>,
     item |-> fn,
     error |-> ""]

\* the final quote!: derives, visibility, enum, name, variants; then the item
assemble(cfg, fn, name, vs) ==
    LET error_vis == IF cfg.visibility.some THEN cfg.visibility.v ELSE fn.vis
    IN  [kind |-> "enum_and_item",
         enum |-> derive_tokens(cfg.derives)
                  \o Visibility_to_tokens(error_vis)
                  \o <<Tok("kw", "enum"), Ident(name),
                       Group("brace", Join(Map(Variant_to_tokens, vs),
                                           Punct(",")))>>,
         item |-> fn,
         error |-> ""]

Assemble ==
    /\ pc = "emitted"
    /\ output' = assemble(config.val, item, error_name.v, variants)
    /\ pc' = "done"
    /\ UNCHANGED <<attr, input, config, item, error_name, stack, variants,
                   collection_errors, diagnostics, useVars, resolveVars>>

Next ==
    \/ ParseConfig \/ ParseItem \/ ResolveFail \/ ResolveOk
    \/ VisitNode \/ VisitMacroMut \/ EmitCollectionErrors \/ Assemble

Spec == Init /\ [][Next]_vars

----------------------------------------------------------------------------
(* The same invocation on functions of every visibility, with the options  *)
(* that shape the head of the synthesized type                             *)

AssembleOptionPool ==
    {<<Ident("derive"),
       Group("paren", <<Ident("Clone"), Punct(","), Ident("thiserror"),
                        Punct("::"), Ident("Error")>>)>>,
     <<Ident("derive"), Group("paren", <<Ident("Debug"), Punct(",")>>)>>,
     <<Ident("visibility"),
       Group("paren", <<Tok("kw", "pub"),
                        Group("paren", <<Tok("kw", "crate")>>)>>)>>,
     <<Ident("visibility"), Group("paren", <<Tok("kw", "pub")>>)>>,
     <<Ident("vis"), Group("paren", <<>>)>>,
     <<Ident("attrs"), Group("paren", <<Attr("#[must_use]")>>)>>}

AssembleAttrs ==
    {Join(opts, Punct(",")) :
        opts \in UNION {[1..n -> AssembleOptionPool] : n \in 0..MaxOpts}}

AssembleOutputs ==
    ItemOutputs
    \cup {[kind |-> "Type",
           ty |-> TypePath(FALSE, FALSE,
                      <<Segment("Result",
                                AngleBracketed(<<TypeArg(Plain("u8")),
                                                 TypeArg(Plain("BarError"))>>))>>
                  )]}

AssembleVisibilities == {"inherited", "pub", "pub(crate)"}

AssembleItems ==
    {ItemFn(v, o, Node("block", b)) :
        v \in AssembleVisibilities, o \in AssembleOutputs,
        b \in {<<>>, <<StmtUnit>>, <<StmtArg>>}}

InitAssemble ==
    /\ pc = "start"
    /\ attr \in AssembleAttrs
    /\ input \in AssembleItems
    /\ config = NoValue /\ item = NoItem /\ error_name = None
    /\ stack = <<>> /\ variants = <<>> /\ collection_errors = <<>>
    /\ diagnostics = <<>> /\ output = NoOutput
    /\ UseIdle /\ ResolveIdle

SpecAssemble == InitAssemble /\ [][Next]_vars

----------------------------------------------------------------------------
(* What a call site says, read off its tokens without the parser *)

RECURSIVE Flatten(_)
Flatten(ts) ==
    IF ts = <<>> THEN <<>>
    ELSE (IF Head(ts).k = "group" THEN Flatten(Head(ts).ts) ELSE <<Head(ts)>>)
         \o Flatten(Tail(ts))

Range(s) == {s[i] : i \in 1..Len(s)}

Keep(ts, P(_)) ==
    LET idx == {i \in 1..Len(ts) : P(i)}
        RECURSIVE Pick(_)
        Pick(i) == IF i > Len(ts) THEN <<>>
                   ELSE (IF i \in idx THEN <<ts[i]>> ELSE <<>>) \o Pick(i + 1)
    IN  Pick(1)

IsEq(ts, i) == i \in 1..Len(ts) /\ ts[i] = Punct("=")

\* the tokens written before / after each `=` of a field list
TypesOf(content) == Keep(content, LAMBDA i : IsEq(content, i + 1))
ValuesOf(content) == Keep(content, LAMBDA i : IsEq(content, i - 1))

StripTrailingComma(ts) ==
    IF ts # <<>> /\ ts[Len(ts)] = Punct(",")
    THEN SubSeq(ts, 1, Len(ts) - 1) ELSE ts

\* a field list with every `= value` removed
DeclarationList(content) ==
    StripTrailingComma(
        Keep(content, LAMBDA i : ~IsEq(content, i) /\ ~IsEq(content, i - 1)))

\* a field list with every attribute, type and `=` removed
ConstructionList(content) ==
    StripTrailingComma(
        Keep(content, LAMBDA i : /\ content[i].k # "attr"
                                 /\ ~IsEq(content, i)
                                 /\ ~IsEq(content, i + 1)))

SiteAttrs(ts) == SelectSeq(ts, LAMBDA t : t.k = "attr")
SiteBody(ts) == SelectSeq(ts, LAMBDA t : t.k # "attr" /\ t.k # "kw")
SiteName(ts) == SiteBody(ts)[1].v
SiteHasGroup(ts) == Len(SiteBody(ts)) >= 2 /\ SiteBody(ts)[2].k = "group"
SiteGroup(ts) == SiteBody(ts)[2]
SiteDisc(ts) ==
    LET b == SiteBody(ts)
        from == IF SiteHasGroup(ts) THEN 3 ELSE 2
    IN  SubSeq(b, from, Len(b))

ConstructionValues(e) ==
    IF e.kind = "Struct" THEN [i \in 1..Len(e.fields) |-> e.fields[i].expr]
    ELSE e.args

DefinitionTypes(v) ==
    [i \in 1..Len(v.fields.fields) |-> v.fields.fields[i].ty]

\* C1: for every call site that parses, the declaration and the construction
\* expression have the fields of the call site, in its order: the declaration
\* carries the type written before each `=`, the construction the value
\* written after it (under the written field name when the list is named),
\* no type token occurs in the construction and no value token in the
\* declaration.
C1_FieldsMatch ==
    pc = "use_done" =>
        LET content == IF SiteHasGroup(call_site)
                       THEN SiteGroup(call_site).ts ELSE <<>>
            types == TypesOf(content)
            values == ValuesOf(content)
            fs == definition.fields.fields
        IN  /\ DefinitionTypes(definition) = types
            /\ ConstructionValues(construction) = values
            /\ Len(fs) = Len(ConstructionValues(construction))
            /\ \A i \in 1..Len(construction.fields) :
                   /\ fs[i].ident = Some(construction.fields[i].member)
                   /\ Ident(fs[i].ident.v) \in Range(content)
            /\ Range(Flatten(Expr_to_tokens(construction)))
                   \cap Range(types) = {}
            /\ Range(Flatten(Variant_to_tokens(definition)))
                   \cap Range(values) = {}

C1_Witness ==
    /\ pc = "use_done"
    /\ definition.fields.shape = "Unnamed"
    /\ Len(definition.fields.fields) = 2
    /\ DefinitionTypes(definition) = <<Ident("usize"), Tok("ty", "&str")>>
    /\ construction.args = <<Tok("lit", "1"), Ident("e")>>

\* the declaration a call site asks for: its attributes, its name, its field
\* list without the values, its discriminant
ExpectedDeclaration(ts) ==
    SiteAttrs(ts) \o <<Ident(SiteName(ts))>>
    \o (IF SiteHasGroup(ts)
        THEN <<Group(SiteGroup(ts).v, DeclarationList(SiteGroup(ts).ts))>>
        ELSE <<>>)
    \o SiteDisc(ts)

\* the construction a call site asks for: the prefixed name and its field
\* list without attributes and types
ExpectedConstruction(ts, pre) ==
    Path_to_tokens(Append(pre, SiteName(ts)))
    \o (IF SiteHasGroup(ts)
        THEN <<Group(SiteGroup(ts).v, ConstructionList(SiteGroup(ts).ts))>>
        ELSE <<>>)

\* C2: the shape written at the call site is the shape of both projections.
\* No delimiter after the name: the declaration is the bare name and the
\* construction the bare path prefix::name.  Braces: name { ident: type, .. }
\* and prefix::name { ident: value, .. }.  Parentheses: name(type, ..) and
\* prefix::name(value, ..).  An empty `()` or `{}` stays an empty list of
\* that shape in both and is not turned into a unit.
C2_ShapePreserved ==
    pc = "use_done" =>
        /\ Variant_to_tokens(definition) = ExpectedDeclaration(call_site)
        /\ Expr_to_tokens(construction) =
               ExpectedConstruction(call_site, prefix)
        /\ IF ~SiteHasGroup(call_site)
           THEN definition.fields.shape = "Unit" /\ construction.kind = "Path"
           ELSE IF SiteGroup(call_site).v = "brace"
           THEN /\ definition.fields.shape = "Named"
                /\ construction.kind = "Struct"
                /\ Len(definition.fields.fields) = Len(construction.fields)
           ELSE /\ definition.fields.shape = "Unnamed"
                /\ construction.kind = "Call"
                /\ Len(definition.fields.fields) = Len(construction.args)

C2_Witness ==
    /\ pc = "use_done"
    /\ call_site = <<Ident("Foo"), Group("paren", <<>>)>>
    /\ prefix = <<"FooError">>
    /\ definition.fields = [shape |-> "Unnamed", fields |-> <<>>]
    /\ Expr_to_tokens(construction) =
           <<Ident("FooError"), Punct("::"), Ident("Foo"),
             Group("paren", <<>>)>>

----------------------------------------------------------------------------

\* the last path segment of a declared result type that is a path
LastSegment(rt) == rt.ty.segments[Len(rt.ty.segments)]

\* a single-segment type with no qualified self, no leading `::` and no
\* generic arguments
IsBareName(ty) ==
    /\ ty.t = "Path" /\ ~ty.qself /\ ~ty.leading_colon
    /\ Len(ty.segments) = 1
    /\ ty.segments[1].arguments.args = <<>>
    /\ ty.segments[1].arguments.kind # "Parenthesized"

TypeArguments(seg) == SelectSeq(seg.arguments.args, LAMBDA a : a.kind = "Type")

\* C8 as stated: E is returned exactly when the result type is a path whose
\* last segment is Result, whatever qualifies it, with exactly two type
\* arguments of which the second is the bare name E.
C8_Original ==
    pc = "resolve_done" =>
        LET claimed ==
              /\ return_type.kind = "Type" /\ return_type.ty.t = "Path"
              /\ LastSegment(return_type).ident = "Result"
              /\ LastSegment(return_type).arguments.kind = "AngleBracketed"
              /\ Len(TypeArguments(LastSegment(return_type))) = 2
              /\ IsBareName(TypeArguments(LastSegment(return_type))[2].ty)
        IN  IF claimed
            THEN struct_name =
                   Some(TypeArguments(LastSegment(return_type))[2]
                            .ty.segments[1].ident)
            ELSE struct_name = None

\* C8 amended: E is returned exactly when the result type is a path with no
\* qualified self whose last segment is Result (leading segments and a
\* leading `::` ignored) with exactly two generic arguments of any kind, of
\* which the second is a type that is the bare name E; unresolved otherwise.
C8_Resolver ==
    pc = "resolve_done" =>
        LET args == LastSegment(return_type).arguments.args
            resolves ==
              /\ return_type.kind = "Type" /\ return_type.ty.t = "Path"
              /\ ~return_type.ty.qself
              /\ LastSegment(return_type).ident = "Result"
              /\ LastSegment(return_type).arguments.kind = "AngleBracketed"
              /\ Len(args) = 2
              /\ args[2].kind = "Type" /\ IsBareName(args[2].ty)
        IN  IF resolves
            THEN struct_name = Some(args[2].ty.segments[1].ident)
            ELSE struct_name = None

C8_Witness ==
    /\ pc = "resolve_done"
    /\ struct_name = Some("FooError")
    /\ Len(return_type.ty.segments) = 3
    /\ return_type.ty.leading_colon
    /\ LastSegment(return_type).arguments.args[1] = LifetimeArg


----------------------------------------------------------------------------
(* The body before and after the pass *)

RECURSIVE Preorder(_, _)
Preorder(n, p) ==
    <<p>> \o Concat([k \in 1..Len(n.kids) |->
                        Preorder(n.kids[k], Append(p, k))])

IsMarker(n) == n.kind = "macro" /\ n.path \in {<<"err">>, <<"errgo">>}

\* the marker occurrences of a body, in depth-first source order
Occurrences(block) ==
    SelectSeq(Preorder(block, <<>>), LAMBDA p : IsMarker(NodeAt(block, p)))

\* ts is a rendering of a variant
WellFormedMarkers == UNION {WellFormedNamed(n) : n \in {"Foo", "Bar", "Baz"}}
IsWellFormed(ts) == ts \in WellFormedMarkers

Parses(ts) == parse2_VariantWithValue(ts).ok

ParsedOccurrences(block) ==
    SelectSeq(Occurrences(block), LAMBDA p : Parses(NodeAt(block, p).tokens))

FailedOccurrences(block) ==
    SelectSeq(Occurrences(block), LAMBDA p : ~Parses(NodeAt(block, p).tokens))

IsPrefixPath(q, p) == Len(q) <= Len(p) /\ SubSeq(p, 1, Len(q)) = q

\* the walker has been at p: p is not at or below a node still to visit
Visited(p) == \A k \in 1..Len(stack) : ~IsPrefixPath(stack[k], p)

Nothing == <<"errgo", "__nothing">>

\* the macro finished with a synthesized type
Finished == pc = "done" /\ output.kind = "enum_and_item"

\* the variants printed between the braces of the synthesized type
EmittedVariants == Map(Variant_to_tokens, variants)

\* C3: every well-formed marker of the body, at top level, in a nested block,
\* in a closure body, in a match arm or as a call argument, is replaced in
\* the emitted function by its construction expression (under
\* errgo::__nothing) and its declaration is among the collected variants.
C3_EveryMarkerRewritten ==
    Finished =>
        \A p \in Range(Occurrences(input.block)) :
            LET ts == NodeAt(input.block, p).tokens IN
            IsWellFormed(ts) =>
                /\ NodeAt(output.item.block, p) =
                       Macro(Nothing,
                             ExpectedConstruction(ts, <<error_name.v>>))
                /\ ExpectedDeclaration(ts) \in Range(EmittedVariants)

C3_Witness ==
    /\ Finished
    /\ input.block.kids = <<StmtClosure, StmtBlock>>
    /\ NodeAt(output.item.block, <<1, 2, 1>>).path = Nothing
    /\ NodeAt(output.item.block, <<2, 1>>).path = Nothing

\* the declarations of the occurrences that parsed and that the walker has
\* been at, in depth-first source order
DeclarationsSoFar ==
    LET done == SelectSeq(ParsedOccurrences(input.block), Visited) IN
    [k \in 1..Len(done) |->
        ExpectedDeclaration(NodeAt(input.block, done[k]).tokens)]

\* C4: while the walker runs and after it, the collected variants are the
\* declarations of the occurrences parsed so far in depth-first source
\* order, nested ones included; a step either leaves the collection alone or
\* appends one declaration at its end, so nothing is merged, dropped or
\* reordered, also when two occurrences share a name.
C4_EncounterOrder ==
    /\ [](pc \in {"walk", "emitted"} \/ Finished
             => EmittedVariants = DeclarationsSoFar)
    /\ [][\/ variants' = variants
          \/ /\ Len(variants') = Len(variants) + 1
             /\ SubSeq(variants', 1, Len(variants)) = variants]_vars

C4_Witness ==
    /\ Finished
    /\ input.block.kids = <<StmtClosure, StmtUnit>>
    /\ Len(variants) = 2
    /\ variants[1].ident = "Foo" /\ variants[1].fields.shape = "Unnamed"
    /\ variants[2].ident = "Foo" /\ variants[2].fields.shape = "Unit"

\* the walker run in one go over a body, occurrence by occurrence
RECURSIVE RunWalker(_, _, _)
RunWalker(acc, name, occ) ==
    IF occ = <<>> THEN acc
    ELSE LET r == visit_macro_mut(name, acc.variants, acc.collection_errors,
                                  NodeAt(acc.block, Head(occ)))
         IN  RunWalker([variants |-> r.variants,
                        collection_errors |-> r.collection_errors,
                        block |-> ReplaceAt(acc.block, Head(occ), r.i)],
                       name, Tail(occ))

\* a body with the occurrences that do not parse taken out
RECURSIVE Erase(_, _)
Erase(block, occ) ==
    IF occ = <<>> THEN block
    ELSE Erase(ReplaceAt(block, Head(occ), Node("lit", <<>>)), Tail(occ))

WithoutFailures(block) ==
    LET erased == Erase(block, FailedOccurrences(block)) IN
    RunWalker([variants |-> <<>>, collection_errors |-> <<>>,
               block |-> erased], error_name.v, Occurrences(erased))

\* C5: a pass over a body with a resolved target type ends with one
\* collected declaration per occurrence that parsed and one diagnostic per
\* occurrence that failed, each for its own occurrence, wherever the failures
\* sit; the variants and the rewritten well-formed occurrences are those of
\* the same body without the failing occurrences.
C5_OnePerOccurrence ==
    Finished =>
        LET ok == ParsedOccurrences(input.block)
            bad == FailedOccurrences(input.block)
            clean == WithoutFailures(input.block)
        IN  /\ Len(variants) = Len(ok)
            /\ Len(diagnostics) = Len(bad)
            /\ \A k \in 1..Len(bad) :
                   diagnostics[k].src = NodeAt(input.block, bad[k]).tokens
            /\ variants = clean.variants
            /\ \A k \in 1..Len(ok) :
                   NodeAt(output.item.block, ok[k]) =
                       NodeAt(clean.block, ok[k])

C5_Witness ==
    /\ Finished
    /\ input.block.kids = <<StmtMatch, StmtArg>>
    /\ Len(diagnostics) = 1 /\ Len(variants) = 1
    /\ NodeAt(output.item.block, <<2, 2>>).path = Nothing

\* C6 as stated: after the pass no macro under a marker name is left in the
\* body, whether its occurrence parsed or failed.
C6_Original ==
    Finished =>
        \A p \in Range(Preorder(output.item.block, <<>>)) :
            ~IsMarker(NodeAt(output.item.block, p))

\* C6 amended: an occurrence that fails to parse is left in place exactly as
\* written, still under its marker name, and one diagnostic carrying its
\* tokens is recorded; after the pass the macros left under a marker name
\* are exactly the occurrences that failed.
C6_FailedLeftInPlace ==
    Finished =>
        /\ \A p \in Range(FailedOccurrences(input.block)) :
               /\ NodeAt(output.item.block, p) = NodeAt(input.block, p)
               /\ \E k \in 1..Len(diagnostics) :
                      diagnostics[k].src = NodeAt(input.block, p).tokens
        /\ Occurrences(output.item.block) = FailedOccurrences(input.block)

C6_Witness ==
    /\ Finished
    /\ input.block.kids = <<StmtUnit, StmtMatch>>
    /\ NodeAt(output.item.block, <<2, 2, 1>>) =
           NodeAt(input.block, <<2, 2, 1>>)
    /\ NodeAt(output.item.block, <<1>>).path = Nothing
    /\ Len(diagnostics) = 1

\* the result type resolves (C8)
Resolves(rt) ==
    /\ rt.kind = "Type" /\ rt.ty.t = "Path" /\ ~rt.ty.qself
    /\ LastSegment(rt).ident = "Result"
    /\ LastSegment(rt).arguments.kind = "AngleBracketed"
    /\ Len(LastSegment(rt).arguments.args) = 2
    /\ LastSegment(rt).arguments.args[2].kind = "Type"
    /\ IsBareName(LastSegment(rt).arguments.args[2].ty)

\* C7: when the configuration parses and the result type of the function
\* does not resolve, the walker never runs (nothing to visit, no variant, no
\* collected error, the item as parsed) and the invocation ends with exactly
\* one diagnostic and the function as handed in, without a synthesized type.
C7_UnresolvedUntouched ==
    ~Resolves(input.output) =>
        /\ stack = <<>> /\ variants = <<>> /\ collection_errors = <<>>
        /\ item \in {NoItem, input}
        /\ pc \notin {"walk", "emitted"}
        /\ pc = "done" /\ config.ok =>
               /\ Len(diagnostics) = 1
               /\ output.kind = "item"
               /\ output.item = input
               /\ output.enum = <<>>

C7_Witness ==
    /\ pc = "done" /\ config.ok
    /\ ~Resolves(input.output)
    /\ input.block.kids = <<StmtUnit, StmtMatch>>
    /\ output.item = input
    /\ Len(diagnostics) = 1

\* the option names written in the attribute arguments
OptionNames(ts) == {ts[k].v : k \in {j \in 1..Len(ts) : ts[j].k = "ident"}}
OptionCount(ts, names) ==
    Cardinality({k \in 1..Len(ts) : ts[k].k = "ident" /\ ts[k].v \in names})

DeriveNames == {"derive"}
AttributesNames == {"attributes", "attrs", "attr"}
VisibilityNames == {"visibility", "vis"}

RepeatedOrUnknown(ts) ==
    \/ OptionCount(ts, DeriveNames) > 1
    \/ OptionCount(ts, AttributesNames) > 1
    \/ OptionCount(ts, VisibilityNames) > 1
    \/ OptionNames(ts) \ (DeriveNames \cup AttributesNames
                          \cup VisibilityNames) # {}

\* C9: with an option repeated (under any of its names) or an unknown option
\* name, the invocation ends right after the configuration is parsed with
\* one configuration error as its output; the item is never parsed, nothing
\* is visited, no variant or error is collected and nothing is emitted of
\* the function.
C9_ConfigFirst ==
    RepeatedOrUnknown(attr) =>
        /\ item = NoItem /\ stack = <<>> /\ variants = <<>>
        /\ collection_errors = <<>> /\ diagnostics = <<>>
        /\ pc \in {"start", "done"}
        /\ pc = "done" =>
               /\ ~config.ok
               /\ output = [kind |-> "compile_error", enum |-> <<>>,
                            item |-> NoItem, error |-> config.val]

C9_Witness ==
    /\ pc = "done"
    /\ OptionNames(attr) = {"attrs", "attr"}
    /\ Resolves(input.output)
    /\ input.block.kids = <<StmtUnit>>
    /\ output.kind = "compile_error"

\* the attributes listed by the attributes option, in the order written
ListedAttributes(ts) ==
    Concat([k \in 1..Len(ts) |->
              IF k > 1 /\ ts[k].k = "group" /\ ts[k - 1].k = "ident"
                 /\ ts[k - 1].v \in AttributesNames
              THEN SiteAttrs(ts[k].ts) ELSE <<>>])

\* what is printed above the `enum` keyword of the synthesized type
AboveEnum(ts) ==
    LET at == CHOOSE k \in 1..Len(ts) : ts[k] = Tok("kw", "enum") IN
    SubSeq(ts, 1, at - 1)

RECURSIVE IsSubsequence(_, _)
IsSubsequence(a, b) ==
    IF a = <<>> THEN TRUE
    ELSE IF b = <<>> THEN FALSE
    ELSE IF Head(a) = Head(b) THEN IsSubsequence(Tail(a), Tail(b))
    ELSE IsSubsequence(a, Tail(b))

\* C10: when the attributes option is given, the attributes it lists stand,
\* in the order given, above the synthesized type in the output.
C10_AttributesAttached ==
    Finished /\ ListedAttributes(attr) # <<>> =>
        IsSubsequence(ListedAttributes(attr), AboveEnum(output.enum))

----------------------------------------------------------------------------
(* The head of the synthesized type *)

\* the contents of the groups written after the option names `names`
OptionGroups(ts, names) ==
    Concat([k \in 1..Len(ts) |->
              IF k > 1 /\ ts[k].k = "group" /\ ts[k - 1].k = "ident"
                 /\ ts[k - 1].v \in names
              THEN <<ts[k].ts>> ELSE <<>>])

\* the bare name written as the second argument of Result
ResolvedName(rt) == LastSegment(rt).arguments.args[2].ty.segments[1].ident

\* C11: when the configuration parses and the target type resolves, the
\* output has a synthesized type whose name is the identifier written as the
\* second argument of Result; the tokens between its attributes and `enum`
\* are the visibility written in the visibility/vis option when the option
\* is given (nothing for `vis()`), and the visibility of the function
\* otherwise; when derive is given, one derive attribute stands first and
\* lists the written entries in the written order, and there is none when
\* derive is not given.
C11_NameVisibilityDerives ==
    pc = "done" /\ config.ok /\ Resolves(input.output) =>
        /\ output.kind = "enum_and_item"
        /\ LET head == AboveEnum(output.enum)
               given == OptionGroups(attr, VisibilityNames)
               derives == OptionGroups(attr, DeriveNames)
           IN  /\ output.enum[Len(head) + 2] =
                      Ident(ResolvedName(input.output))
               /\ SelectSeq(head, LAMBDA t : t.k # "attr") =
                      (IF given # <<>> THEN given[1]
                       ELSE Visibility_to_tokens(input.vis))
               /\ SelectSeq(head, LAMBDA t : t.k = "attr" /\ t.v = "derive")
                      = (IF derives = <<>> THEN <<>>
                         ELSE <<[k |-> "attr", v |-> "derive",
                                 ts |-> StripTrailingComma(derives[1])]>>)
               /\ derives # <<>> => head[1].v = "derive"

C11_Witness ==
    /\ Finished
    /\ input.vis = "pub"
    /\ OptionNames(attr) = {"derive", "visibility"}
    /\ AboveEnum(output.enum) =
           <<[k |-> "attr", v |-> "derive",
              ts |-> <<Ident("Clone"), Punct(","), Ident("thiserror"),
                       Punct("::"), Ident("Error")>>],
             Tok("kw", "pub"), Group("paren", <<Tok("kw", "crate")>>)>>
    /\ error_name = Some("BarError")

----------------------------------------------------------------------------
(* Attributes written at a call site *)

\* the entries of a field list: the runs of tokens between its commas
RECURSIVE Entries(_)
Entries(content) ==
    IF content = <<>> THEN <<>>
    ELSE LET commas == {k \in 1..Len(content) : content[k] = Punct(",")}
             cut == IF commas = {} THEN Len(content) + 1
                    ELSE CHOOSE k \in commas : \A j \in commas : k <= j
         IN  <<SubSeq(content, 1, cut - 1)>>
             \o Entries(SubSeq(content, cut + 1, Len(content)))

\* C12: for every call site that parses, the declaration carries the
\* attributes written before the variant name, in the written order, and its
\* i-th field carries exactly the attributes written in the i-th entry of
\* the field list, in the written order; the construction expression has no
\* attribute on any field and no attribute token anywhere.
C12_MetadataCarried ==
    pc = "use_done" =>
        LET entries == IF SiteHasGroup(call_site)
                       THEN Entries(SiteGroup(call_site).ts) ELSE <<>>
            fs == definition.fields.fields
        IN  /\ definition.attrs = SiteAttrs(call_site)
            /\ Len(fs) = Len(entries)
            /\ \A i \in 1..Len(fs) : fs[i].attrs = SiteAttrs(entries[i])
            /\ SiteAttrs(Variant_to_tokens(definition)) =
                   SiteAttrs(call_site)
            /\ \A i \in 1..Len(construction.fields) :
                   construction.fields[i].attrs = <<>>
            /\ \A t \in Range(Flatten(Expr_to_tokens(construction))) :
                   t.k # "attr"

C12_Witness ==
    /\ pc = "use_done"
    /\ definition.attrs = <<Tok("attr", "#[doc]"), VariantAttr>>
    /\ definition.fields.shape = "Unnamed"
    /\ Len(definition.fields.fields) = 2
    /\ definition.fields.fields[1].attrs = <<FieldAttr>>
    /\ definition.fields.fields[2].attrs =
           <<Tok("attr", "#[source]"), Tok("attr", "#[backtrace]")>>
    /\ construction.args = <<Tok("lit", "1"), Ident("e")>>

----------------------------------------------------------------------------
(* The walker on bodies with macros of other names, markers inside macro    *)
(* arguments, field lists with a broken entry, and on its own output        *)

\* err!(Foo(usize = err!(Qux)))
StmtNested ==
    Macro(<<"err">>,
          <<Ident("Foo"),
            Group("paren", <<Ident("usize"), Punct("="), Ident("err"),
                             Punct("!"),
                             Group("paren", <<Ident("Qux")>>)>>)>>)
\* println!(err!(Qux))
StmtPrintln ==
    Macro(<<"println">>,
          <<Ident("err"), Punct("!"), Group("paren", <<Ident("Qux")>>)>>)
\* errgo::err!(Foo)
StmtQualified == Macro(<<"errgo", "err">>, <<Ident("Foo")>>)
\* errgo::__nothing!(FooError::Foo)
StmtWrapped ==
    Macro(<<"errgo", "__nothing">>,
          <<Ident("FooError"), Punct("::"), Ident("Foo")>>)

\* bar: usize = 1, baz: &str = e   and   usize = 1, &str = e
PairOfFields == <<[a |-> FALSE, which |-> 1], [a |-> FALSE, which |-> 2]>>
NamedPair == RenderFields(PairOfFields, TRUE, FALSE)
UnnamedPair == RenderFields(PairOfFields, FALSE, FALSE)

\* errgo!(Foo { bar: usize = 1, .. }) and err!(Foo(usize = 1, ..)) with one
\* token of the second entry left out
MalformedStmts ==
    {Macro(<<"errgo">>,
           <<Ident("Foo"), Group("brace", DropAt(NamedPair, i))>>) :
        i \in (Len(NamedPair) - 4)..Len(NamedPair)}
    \cup {Macro(<<"err">>,
                <<Ident("Foo"), Group("paren", DropAt(UnnamedPair, i))>>) :
             i \in (Len(UnnamedPair) - 2)..Len(UnnamedPair)}

WalkPool ==
    {StmtUnit, StmtMatch, StmtNested, StmtPrintln, StmtQualified, StmtWrapped}
    \cup MalformedStmts

WalkItems ==
    {ItemFn("inherited", o, Node("block", stmts)) :
        o \in ItemOutputs,
        stmts \in UNION {[1..n -> WalkPool] : n \in 0..MaxStmts}}

\* the macro invocations of a body, in depth-first source order
Macros(block) ==
    SelectSeq(Preorder(block, <<>>),
              LAMBDA p : NodeAt(block, p).kind = "macro")

\* the function as one invocation of the attribute hands it on
FirstPass(fn) ==
    LET r == RunWalker([variants |-> <<>>, collection_errors |-> <<>>,
                        block |-> fn.block],
                       get_struct_name_from_return_type(fn.output).v,
                       Macros(fn.block))
    IN  ItemFn(fn.vis, fn.output, r.block)

\* functions handed on by a first invocation that rewrote all their markers
SecondPassItems ==
    {FirstPass(fn) :
        fn \in {i \in WalkItems :
                  /\ get_struct_name_from_return_type(i.output).some
                  /\ Occurrences(i.block) # <<>>
                  /\ FailedOccurrences(i.block) = <<>>}}

InitWalk ==
    /\ pc = "start"
    /\ attr = <<>>
    /\ input \in WalkItems \cup SecondPassItems
    /\ config = NoValue /\ item = NoItem /\ error_name = None
    /\ stack = <<>> /\ variants = <<>> /\ collection_errors = <<>>
    /\ diagnostics = <<>> /\ output = NoOutput
    /\ UseIdle /\ ResolveIdle

SpecWalk == InitWalk /\ [][Next]_vars

\* the occurrences of a body rewritten in the output
Rewritten(occ) ==
    SelectSeq(occ, LAMBDA p : NodeAt(output.item.block, p).path = Nothing)

\* an entry of a field list has its required tokens: after its attributes,
\* name `:` type `=` value in braces, type `=` value in parentheses
EntryComplete(entry, delimiter) ==
    LET b == SelectSeq(entry, LAMBDA t : t.k # "attr") IN
    IF delimiter = "brace"
    THEN /\ Len(b) >= 5
         /\ b[1].k = "ident" /\ b[2] = Punct(":")
         /\ b[3].k \in {"ident", "ty"} /\ b[4] = Punct("=")
         /\ b[5].k \in {"ident", "lit"}
    ELSE /\ Len(b) >= 3
         /\ b[1].k \in {"ident", "ty"} /\ b[2] = Punct("=")
         /\ b[3].k \in {"ident", "lit"}

\* the field list of a marker has an entry that lacks a required token
LacksRequired(ts) ==
    /\ SiteHasGroup(ts)
    /\ \E k \in 1..Len(Entries(SiteGroup(ts).ts)) :
           ~EntryComplete(Entries(SiteGroup(ts).ts)[k], SiteGroup(ts).v)

\* C13: an occurrence whose field list has an entry lacking a required token
\* is not rewritten and gets exactly one diagnostic, recorded with its
\* tokens; no declaration is collected for it, also when the entries before
\* the broken one are well-formed (there are as many variants as rewritten
\* occurrences); the pass goes on: every well-formed occurrence of the same
\* body is rewritten and declared.
C13_MalformedEntryFailsMarker ==
    Finished =>
        LET occ == Occurrences(input.block)
            tokens(p) == NodeAt(input.block, p).tokens
        IN  /\ \A p \in Range(occ) :
                   LacksRequired(tokens(p)) =>
                       /\ NodeAt(output.item.block, p) =
                              NodeAt(input.block, p)
                       /\ Cardinality({k \in 1..Len(diagnostics) :
                                          diagnostics[k].src = tokens(p)})
                          = Cardinality({k \in 1..Len(occ) :
                                            tokens(occ[k]) = tokens(p)})
            /\ Len(variants) = Len(Rewritten(occ))
            /\ \A q \in Range(occ) :
                   IsWellFormed(tokens(q)) =>
                       /\ NodeAt(output.item.block, q) =
                              Macro(Nothing,
                                    ExpectedConstruction(tokens(q),
                                                         <<error_name.v>>))
                       /\ ExpectedDeclaration(tokens(q))
                              \in Range(EmittedVariants)

C13_Witness ==
    /\ Finished
    /\ input.block.kids =
           <<Macro(<<"errgo">>,
                   <<Ident("Foo"),
                     Group("brace",
                           <<Ident("bar"), Punct(":"), Ident("usize"),
                             Punct("="), Tok("lit", "1"), Punct(","),
                             Ident("baz"), Punct(":"), Punct("="),
                             Ident("e")>>)>>),
             StmtUnit>>
    /\ Len(diagnostics) = 1
    /\ Len(variants) = 1 /\ variants[1].fields.shape = "Unit"
    /\ NodeAt(output.item.block, <<1>>).path = <<"errgo">>
    /\ NodeAt(output.item.block, <<2>>).path = Nothing

\* C14: a parsed occurrence is replaced by a macro under errgo::__nothing,
\* which is not a marker name; when the function handed in is the output of
\* a first invocation that rewrote all its markers, the pass leaves the
\* function as it is and collects no variant and no diagnostic.
C14_SecondPassChangesNothing ==
    Finished =>
        /\ \A p \in Range(ParsedOccurrences(input.block)) :
               /\ NodeAt(output.item.block, p).path = Nothing
               /\ ~IsMarker(NodeAt(output.item.block, p))
        /\ input \in SecondPassItems =>
               /\ output.item = input
               /\ variants = <<>> /\ collection_errors = <<>>
               /\ diagnostics = <<>>

C14_Witness ==
    /\ Finished
    /\ input \in SecondPassItems
    /\ input.block.kids =
           <<Macro(Nothing,
                   <<Ident("FooError"), Punct("::"), Ident("Foo"),
                     Group("paren", <<Ident("err"), Punct("!"),
                                      Group("paren", <<Ident("Qux")>>)>>)>>),
             Macro(Nothing,
                   <<Ident("FooError"), Punct("::"), Ident("Foo")>>)>>
    /\ output.item = input
    /\ variants = <<>>

----------------------------------------------------------------------------
(* The discriminant *)

\* C15: a rendering with `= 7` after the name, after a brace list or after
\* a parenthesised list parses; for every call site that parses, the
\* declaration has the expression written after the top-level `=` as its
\* discriminant (none when no `=` is written) and prints it last, and the
\* construction expression has neither that expression nor an `=`; a call
\* site ending in `=` does not parse.
C15_Discriminant ==
    /\ pc # "use_start" /\ call_site \in WellFormed => parsed.ok
    /\ pc # "use_start" /\ call_site # <<>>
          /\ call_site[Len(call_site)] = Punct("=")
          => ~parsed.ok /\ pc = "use_invalid"
    /\ pc = "use_done" =>
          LET disc == SiteDisc(call_site)
              printed == Variant_to_tokens(definition)
              built == Range(Flatten(Expr_to_tokens(construction)))
          IN  /\ definition.discriminant.some = (disc # <<>>)
              /\ disc # <<>> => definition.discriminant.v = disc[2]
              /\ SubSeq(printed, Len(printed) - Len(disc) + 1, Len(printed))
                     = disc
              /\ Punct("=") \notin built
              /\ disc # <<>> => disc[1] = Punct("=") /\ disc[2] \notin built

C15_Witness ==
    /\ pc = "use_done"
    /\ definition.fields.shape = "Named"
    /\ Len(definition.fields.fields) = 1
    /\ definition.discriminant.some
    /\ definition.discriminant.v = Tok("lit", "7")
    /\ construction.kind = "Struct"
    /\ Len(construction.fields) = 1

----------------------------------------------------------------------------
(* Markers inside the tokens of a macro invocation, and macro names *)

\* the names of the markers written inside a token stream, at any depth:
\* the identifier that follows `err ! (` or `errgo ! (`
RECURSIVE InnerMarkers(_)
InnerMarkers(ts) ==
    Concat([k \in 1..Len(ts) |->
              IF ts[k].k # "group" THEN <<>>
              ELSE (IF /\ k > 2 /\ ts[k - 1] = Punct("!")
                       /\ ts[k - 2] \in {Ident("err"), Ident("errgo")}
                    THEN <<ts[k].ts[1].v>> ELSE <<>>)
                   \o InnerMarkers(ts[k].ts)])

C17_MarkerNames ==
    Finished =>
        LET macros == Macros(input.block)
            marked == SelectSeq(macros,
                          LAMBDA p : Len(NodeAt(input.block, p).path) = 1
                                     /\ NodeAt(input.block, p).path[1]
                                            \in {"err", "errgo"})
        IN  /\ \A p \in Range(macros) \ Range(marked) :
                   NodeAt(output.item.block, p) = NodeAt(input.block, p)
            /\ \A p \in Range(marked) :
                   \/ /\ NodeAt(output.item.block, p).path = Nothing
                      /\ NodeAt(output.item.block, p).tokens
                             # NodeAt(input.block, p).tokens
                   \/ \E k \in 1..Len(diagnostics) :
                          diagnostics[k].src = NodeAt(input.block, p).tokens
            /\ Len(variants) + Len(diagnostics) = Len(marked)

C17_Witness ==
    /\ Finished
    /\ input.block.kids = <<StmtWrapped, StmtUnit>>
    /\ output.item.block.kids =
           <<StmtWrapped,
             Macro(Nothing, <<Ident("FooError"), Punct("::"), Ident("Foo")>>)>>
    /\ Len(variants) = 1
    /\ diagnostics = <<>>

====
